---- MODULE Spec2Model ----
(***************************************************************************)
(* Model of main.py, the MyNeta Lok Sabha 2024 scraper: safe_get, the      *)
(* three link-discovery functions and parse_candidate.                     *)
(*                                                                         *)
(* A Python str is a sequence of one-character strings (<<>> is "").  A    *)
(* Python list is a sequence, a dict is a sequence of <<key, value>> pairs *)
(* in insertion order (the order json.dumps writes), and the three dicts   *)
(* with a fixed shape (a link entry, a case, the record) are records.      *)
(* BeautifulSoup's parse of the response text is not modelled: a fetched   *)
(* page is given as the elements the code looks up in it.                  *)
(***************************************************************************)
EXTENDS Integers, Sequences, FiniteSets, TLC

\* ---------------------------------------------------------------- bounds
\* anchors on a listing page
MaxAnchors == 3

\* rows of a criminal-cases table
MaxCrimeRows == 3

\* rows of an immovable-assets table
MaxImmovableRows == 3

\* rows of a liabilities table
MaxLiabilityRows == 2

\* <b> elements on a candidate page
MaxBolds == 2

\* ------------------------------------------------------ program constants
\* safe_get(url, retries = 3)
DefaultRetries == 3

BASE_URL == <<"h","t","t","p","s",":","/","/","w","w","w",".","m","y","n","e","t","a",".","i","n","f","o","/","L","o","k","S","a","b","h","a","2","0","2","4">>

\* ------------------------------------------------------------------ text
Whitespace == {" ", "\t", "\n", "\r", "\f"}

Digits == <<"0","1","2","3","4","5","6","7","8","9">>

UpperAlpha == <<"A","B","C","D","E","F","G","H","I","J","K","L","M","N","O","P","Q","R","S","T","U","V","W","X","Y","Z">>

LowerAlpha == <<"a","b","c","d","e","f","g","h","i","j","k","l","m","n","o","p","q","r","s","t","u","v","w","x","y","z">>

Range(s) == {s[i] : i \in DOMAIN s}

IsSpace(c) == c \in Whitespace

IsDigit(c) == c \in Range(Digits)

IsAlpha(c) == c \in Range(UpperAlpha) \cup Range(LowerAlpha)

\* str.lower() of one character (re.IGNORECASE compares case-folded)
Lower(c) ==
    IF c \in Range(UpperAlpha)
    THEN LowerAlpha[CHOOSE i \in 1..26 : UpperAlpha[i] = c]
    ELSE c

Min(S) == CHOOSE x \in S : \A y \in S : x <= y

\* s[i-1:] in Python terms: the suffix starting at the 1-based position i
From(s, i) == SubSeq(s, i, Len(s))

\* the literal lit occurs in s at position i
MatchAt(s, i, lit) ==
    /\ i >= 1
    /\ i + Len(lit) - 1 <= Len(s)
    /\ \A k \in 1..Len(lit) : s[i + k - 1] = lit[k]

\* the same under re.IGNORECASE; lit is written in lower case
MatchAtI(s, i, lit) ==
    /\ i >= 1
    /\ i + Len(lit) - 1 <= Len(s)
    /\ \A k \in 1..Len(lit) : Lower(s[i + k - 1]) = lit[k]

\* sub in s
Contains(s, sub) == \E i \in 1..(Len(s) - Len(sub) + 1) : MatchAt(s, i, sub)

\* s.startswith(prefix)
StartsWith(s, prefix) == MatchAt(s, 1, prefix)

\* the position after the longest run of whitespace that starts at i (\s*)
RECURSIVE WsRunEnd(_, _)
WsRunEnd(s, i) ==
    IF i <= Len(s) /\ IsSpace(s[i]) THEN WsRunEnd(s, i + 1) ELSE i

\* the position after the longest run of digits that starts at i (\d*)
RECURSIVE DigitRunEnd(_, _)
DigitRunEnd(s, i) ==
    IF i <= Len(s) /\ IsDigit(s[i]) THEN DigitRunEnd(s, i + 1) ELSE i

\* str.strip()
RECURSIVE LStrip(_)
LStrip(s) ==
    IF s # <<>> /\ IsSpace(Head(s)) THEN LStrip(Tail(s)) ELSE s

RECURSIVE RStrip(_)
RStrip(s) ==
    IF s # <<>> /\ IsSpace(s[Len(s)])
    THEN RStrip(SubSeq(s, 1, Len(s) - 1))
    ELSE s

Strip(s) == RStrip(LStrip(s))

\* re.sub(r"\s+", " ", s)
RECURSIVE CollapseWs(_)
CollapseWs(s) ==
    IF s = <<>> THEN <<>>
    ELSE IF IsSpace(Head(s))
         THEN <<" ">> \o CollapseWs(From(s, WsRunEnd(s, 1)))
         ELSE <<Head(s)>> \o CollapseWs(Tail(s))

\* clean(text)
clean(text) == IF text = <<>> THEN <<>> ELSE CollapseWs(Strip(text))

\* sep.join(parts)
RECURSIVE Join(_, _)
Join(sep, parts) ==
    IF parts = <<>> THEN <<>>
    ELSE IF Len(parts) = 1 THEN parts[1]
         ELSE parts[1] \o sep \o Join(sep, Tail(parts))

\* int(digits) for a non-empty run of decimal digits
RECURSIVE ParseInt(_)
ParseInt(ds) ==
    IF ds = <<>> THEN 0
    ELSE 10 * ParseInt(SubSeq(ds, 1, Len(ds) - 1))
         + ((CHOOSE i \in 1..10 : Digits[i] = ds[Len(ds)]) - 1)

\* str(n) for n >= 0
RECURSIVE IntToText(_)
IntToText(n) ==
    IF n < 10 THEN <<Digits[n + 1]>>
    ELSE IntToText(n \div 10) \o <<Digits[(n % 10) + 1]>>

\* ------------------------------------------------------- link discovery
\* re.search(lit + r"(\d+)", href): the leftmost occurrence of lit that a
\* digit follows, group 1 being the longest run of digits after it
IdSearch(href, lit) ==
    LET starts == {i \in 1..Len(href) :
                      /\ MatchAt(href, i, lit)
                      /\ i + Len(lit) <= Len(href)
                      /\ IsDigit(href[i + Len(lit)])}
    IN  IF starts = {} THEN [matched |-> FALSE, group1 |-> <<>>]
        ELSE LET b == Min(starts) + Len(lit)
             IN  [matched |-> TRUE,
                  group1 |-> SubSeq(href, b, DigitRunEnd(href, b) - 1)]

\* the loop over soup.find_all("a", href=True) of get_all_constituencies
RECURSIVE CollectAllConstituencies(_)
CollectAllConstituencies(as) ==
    IF as = <<>> THEN <<>>
    ELSE LET a == Head(as)
             m == IdSearch(a.href, <<"c","o","n","s","t","i","t","u","e","n","c","y","_","i","d","=">>)
         IN  (IF m.matched /\ Contains(a.href, <<"s","h","o","w","_","c","a","n","d","i","d","a","t","e","s">>)
              THEN <<[constituency_id |-> ParseInt(m.group1),
                      constituency_name |-> clean(a.text)]>>
              ELSE <<>>)
             \o CollectAllConstituencies(Tail(as))

\* the loop over soup.find_all("a", href=True) of get_constituencies
RECURSIVE CollectConstituencies(_, _)
CollectConstituencies(as, state_id) ==
    IF as = <<>> THEN <<>>
    ELSE LET a == Head(as)
             m == IdSearch(a.href, <<"c","o","n","s","t","i","t","u","e","n","c","y","_","i","d","=">>)
         IN  (IF m.matched /\ Contains(a.href, <<"s","h","o","w","_","c","a","n","d","i","d","a","t","e","s">>)
              THEN <<[constituency_id |-> ParseInt(m.group1),
                      constituency_name |-> clean(a.text),
                      state_id |-> state_id]>>
              ELSE <<>>)
             \o CollectConstituencies(Tail(as), state_id)

\* the loop over soup.find_all("a", href=True) of get_candidate_ids
RECURSIVE CollectCandidates(_, _)
CollectCandidates(as, constituency_id) ==
    IF as = <<>> THEN <<>>
    ELSE LET a == Head(as)
             m == IdSearch(a.href, <<"c","a","n","d","i","d","a","t","e","_","i","d","=">>)
         IN  (IF m.matched /\ Contains(a.href, <<"c","a","n","d","i","d","a","t","e",".","p","h","p">>)
              THEN <<[candidate_id |-> ParseInt(m.group1),
                      name_from_list |-> clean(a.text),
                      constituency_id |-> constituency_id]>>
              ELSE <<>>)
             \o CollectCandidates(Tail(as), constituency_id)

\* "# deduplicate" of get_all_constituencies and get_constituencies: the
\* loop state after the first n entries
RECURSIVE DedupConstituencies(_, _)
DedupConstituencies(cs, n) ==
    IF n = 0 THEN [seen |-> {}, unique |-> <<>>]
    ELSE LET p == DedupConstituencies(cs, n - 1)
             c == cs[n]
         IN  IF c.constituency_id \notin p.seen
             THEN [seen |-> p.seen \cup {c.constituency_id},
                   unique |-> Append(p.unique, c)]
             ELSE p

\* the de-duplication that keeps the last entry of an identifier
UniqueConstituenciesKeepsLast(cs) ==
    LET kept == SelectSeq(
                    [k \in 1..Len(cs) |-> [at |-> k, entry |-> cs[k]]],
                    LAMBDA e : \A j \in (e.at + 1)..Len(cs) :
                        cs[j].constituency_id # e.entry.constituency_id)
    IN  [k \in 1..Len(kept) |-> kept[k].entry]

UniqueConstituencies(cs) == DedupConstituencies(cs, Len(cs)).unique

\* "# deduplicate" of get_candidate_ids
RECURSIVE DedupCandidates(_, _)
DedupCandidates(cs, n) ==
    IF n = 0 THEN [seen |-> {}, unique |-> <<>>]
    ELSE LET p == DedupCandidates(cs, n - 1)
             c == cs[n]
         IN  IF c.candidate_id \notin p.seen
             THEN [seen |-> p.seen \cup {c.candidate_id},
                   unique |-> Append(p.unique, c)]
             ELSE p

UniqueCandidates(cs) == DedupCandidates(cs, Len(cs)).unique

\* ------------------------------------------------- dicts and json.dumps
\* d[k] = v on a dict kept as <<key, value>> pairs in insertion order
DictSet(d, k, v) ==
    IF \E i \in 1..Len(d) : d[i][1] = k
    THEN [i \in 1..Len(d) |-> IF d[i][1] = k THEN <<k, v>> ELSE d[i]]
    ELSE Append(d, <<k, v>>)

\* d.get(k, default)
DictGet(d, k, default) ==
    IF \E i \in 1..Len(d) : d[i][1] = k
    THEN d[CHOOSE i \in 1..Len(d) : d[i][1] = k][2]
    ELSE default

\* the body of a JSON string: json.dumps escapes the quote, the backslash
\* and the control characters (ensure_ascii=False leaves the rest)
RECURSIVE JsonEscape(_)
JsonEscape(s) ==
    IF s = <<>> THEN <<>>
    ELSE (CASE Head(s) = "\"" -> <<"\\", "\"">>
            [] Head(s) = "\\" -> <<"\\", "\\">>
            [] Head(s) = "\n" -> <<"\\", "n">>
            [] Head(s) = "\r" -> <<"\\", "r">>
            [] Head(s) = "\t" -> <<"\\", "t">>
            [] Head(s) = "\f" -> <<"\\", "f">>
            [] OTHER -> <<Head(s)>>)
         \o JsonEscape(Tail(s))

\* json.dumps(s) for a str
JsonString(s) == <<"\"">> \o JsonEscape(s) \o <<"\"">>

\* json.dumps(l) for a list of str
JsonStringList(l) ==
    <<"[">> \o Join(<<","," ">>, [i \in 1..Len(l) |-> JsonString(l[i])]) \o <<"]">>

\* json.dumps(d) for a dict of str to str
JsonDict(d) ==
    <<"{">>
    \o Join(<<","," ">>,
            [i \in 1..Len(d) |->
                JsonString(d[i][1]) \o <<":"," ">> \o JsonString(d[i][2])])
    \o <<"}">>

\* json.dumps(c) for a case {"raw": ..., "ipc_sections": [...], "charges": [...]}
JsonCase(c) ==
    <<"{">>
    \o JsonString(<<"r","a","w">>) \o <<":"," ">> \o JsonString(c.raw) \o <<","," ">>
    \o JsonString(<<"i","p","c","_","s","e","c","t","i","o","n","s">>) \o <<":"," ">>
    \o JsonStringList(c.ipc_sections) \o <<","," ">>
    \o JsonString(<<"c","h","a","r","g","e","s">>) \o <<":"," ">> \o JsonStringList(c.charges)
    \o <<"}">>

\* json.dumps(cases, ensure_ascii=False)
JsonCases(cs) ==
    <<"[">> \o Join(<<","," ">>, [i \in 1..Len(cs) |-> JsonCase(cs[i])]) \o <<"]">>

\* json.dumps(immovable_rows, ensure_ascii=False)
JsonRows(rs) ==
    <<"[">> \o Join(<<","," ">>, [i \in 1..Len(rs) |-> JsonDict(rs[i])]) \o <<"]">>

\* -------------------------------------------------- criminal-case rows
\* re.search(r"(case\s*no|f\.?i\.?r\.?|crime\s*no)", text, re.I)
IsCaseHeader(text) ==
    \E i \in 1..Len(text) :
        \/ /\ MatchAtI(text, i, <<"c","a","s","e">>)
           /\ MatchAtI(text, WsRunEnd(text, i + 4), <<"n","o">>)
        \/ /\ MatchAtI(text, i, <<"f">>)
           /\ LET a == IF MatchAt(text, i + 1, <<".">>) THEN i + 2 ELSE i + 1
                  b == IF MatchAt(text, a + 1, <<".">>) THEN a + 2 ELSE a + 1
              IN  MatchAtI(text, a, <<"i">>) /\ MatchAtI(text, b, <<"r">>)
        \/ /\ MatchAtI(text, i, <<"c","r","i","m","e">>)
           /\ MatchAtI(text, WsRunEnd(text, i + 5), <<"n","o">>)

\* a character of the class [\dA-Za-z/,\-\s]
IsIpcChar(c) == IsDigit(c) \/ IsAlpha(c) \/ c \in {"/", ",", "-"} \/ IsSpace(c)

\* the position after the longest run of [\dA-Za-z/,\-\s] that starts at i
RECURSIVE IpcRunEnd(_, _)
IpcRunEnd(s, i) ==
    IF i <= Len(s) /\ IsIpcChar(s[i]) THEN IpcRunEnd(s, i + 1) ELSE i

RECURSIVE ConcatAll(_)
ConcatAll(ss) == IF ss = <<>> THEN <<>> ELSE Head(ss) \o ConcatAll(Tail(ss))

\* where a greedy \s* that starts at p may end, in the order the regex
\* engine tries the ends: the longest first
WsEnds(s, p) ==
    LET hi == WsRunEnd(s, p) IN [k \in 1..(hi - p + 1) |-> hi - k + 1]

\* where (?:Section|Sec\.?|Sections)? that starts at p may end, in the
\* order the engine tries them
OptSectionEnds(s, p) ==
    (IF MatchAtI(s, p, <<"s","e","c","t","i","o","n">>) THEN <<p + 7>> ELSE <<>>)
    \o (IF MatchAtI(s, p, <<"s","e","c",".">>) THEN <<p + 4>> ELSE <<>>)
    \o (IF MatchAtI(s, p, <<"s","e","c">>) THEN <<p + 3>> ELSE <<>>)
    \o (IF MatchAtI(s, p, <<"s","e","c","t","i","o","n","s">>) THEN <<p + 8>> ELSE <<>>)
    \o <<p>>

\* where the prefix IPC\s*(?:Section|Sec\.?|Sections)?\s*|u/s\s*|Section\s*
\* may end when it starts at i, in the order the engine tries the ends
IpcPrefixEnds(s, i) ==
    (IF MatchAtI(s, i, <<"i","p","c">>)
     THEN LET w == WsEnds(s, i + 3)
          IN  ConcatAll([k \in 1..Len(w) |->
                  LET o == OptSectionEnds(s, w[k])
                  IN  ConcatAll([j \in 1..Len(o) |-> WsEnds(s, o[j])])])
     ELSE <<>>)
    \o (IF MatchAtI(s, i, <<"u","/","s">>) THEN WsEnds(s, i + 3) ELSE <<>>)
    \o (IF MatchAtI(s, i, <<"s","e","c","t","i","o","n">>) THEN WsEnds(s, i + 7) ELSE <<>>)

\* the match of the whole pattern that starts at i: the first prefix end
\* that a character of the class follows; group 1 is the longest run there
IpcMatchAt(s, i) ==
    LET ends == IpcPrefixEnds(s, i)
        ok == {k \in 1..Len(ends) :
                  ends[k] <= Len(s) /\ IsIpcChar(s[ends[k]])}
    IN  IF ok = {} THEN [matched |-> FALSE, group1 |-> <<>>, end |-> i]
        ELSE LET b == ends[Min(ok)]
                 e == IpcRunEnd(s, b)
             IN  [matched |-> TRUE, group1 |-> SubSeq(s, b, e - 1), end |-> e]

\* re.findall(ipc pattern, text, re.IGNORECASE), scanning from position i
RECURSIVE IpcFindAll(_, _)
IpcFindAll(s, i) ==
    IF i > Len(s) THEN <<>>
    ELSE LET m == IpcMatchAt(s, i)
         IN  IF m.matched
             THEN <<m.group1>> \o IpcFindAll(s, m.end)
             ELSE IpcFindAll(s, i + 1)

IsSectionSep(c) == c \in {",", "/"} \/ IsSpace(c)

\* the position after the longest run of characters other than [,\s/]
RECURSIVE TokenEnd(_, _)
TokenEnd(s, i) ==
    IF i <= Len(s) /\ ~IsSectionSep(s[i]) THEN TokenEnd(s, i + 1) ELSE i

\* [p for p in re.split(r"[,\s/]+", m) if p], scanning from position i
RECURSIVE SplitSections(_, _)
SplitSections(m, i) ==
    IF i > Len(m) THEN <<>>
    ELSE IF IsSectionSep(m[i]) THEN SplitSections(m, i + 1)
         ELSE <<SubSeq(m, i, TokenEnd(m, i) - 1)>>
              \o SplitSections(m, TokenEnd(m, i))

\* RowSections without the split of a match into its tokens
RowSectionsUnsplit(text) == IpcFindAll(text, 1)

\* the sections the row adds: for m in ipc_matches: ...extend(...)
RowSections(text) ==
    LET ms == IpcFindAll(text, 1)
    IN  ConcatAll([k \in 1..Len(ms) |-> SplitSections(ms[k], 1)])

\* re.match(r"^\d+[\s|]+$", text)
IsNumberLine(text) ==
    LET d == DigitRunEnd(text, 1)
    IN  /\ d > 1
        /\ d <= Len(text)
        /\ \A k \in d..Len(text) : IsSpace(text[k]) \/ text[k] = "|"

\* len(text) > 10 and not re.match(r"^\d+[\s|]+$", text)
IsChargeLine(text) == Len(text) > 10 /\ ~IsNumberLine(text)

\* cells = [clean(c.get_text()) for c in row.find_all(["td", "th"])]
RowCells(row) == [j \in 1..Len(row) |-> clean(row[j])]

\* any(cells)
AnyCell(cells) == \E j \in 1..Len(cells) : cells[j] # <<>>

\* current_case = {}
NoCase == <<>>

\* the truth value of current_case: a dict is true when it has a key
IsOpen(c) == DOMAIN c # {}

\* the text of the siblings after the heading up to the next h3/h4:
\* for sib in find_next_siblings(): if sib.name in ("h3", "h4"): break
RECURSIVE SiblingText(_)
SiblingText(sibs) ==
    IF sibs = <<>> \/ Head(sibs).name \in {"h3", "h4"} THEN <<>>
    ELSE Head(sibs).text \o SiblingText(Tail(sibs))

\* ConvictionsCount with the last match in place of the first
ConvictionsCountLast(text) ==
    LET starts == {i \in 1..Len(text) :
                      /\ IsDigit(text[i])
                      /\ (i = 1 \/ ~IsDigit(text[i - 1]))
                      /\ LET e == DigitRunEnd(text, i)
                             w == WsRunEnd(text, e)
                         IN  w > e /\ MatchAtI(text, w, <<"c","o","n","v","i","c","t","i","o","n">>)}
    IN  IF starts = {} THEN 0
        ELSE LET i == CHOOSE x \in starts : \A y \in starts : y <= x
             IN  ParseInt(SubSeq(text, i, DigitRunEnd(text, i) - 1))

\* re.search(r"(\d+)\s+conviction", conviction_text, re.I) and
\* int(m.group(1)), 0 without a match
ConvictionsCount(text) ==
    LET starts == {i \in 1..Len(text) :
                      /\ IsDigit(text[i])
                      /\ LET e == DigitRunEnd(text, i)
                             w == WsRunEnd(text, e)
                         IN  w > e /\ MatchAtI(text, w, <<"c","o","n","v","i","c","t","i","o","n">>)}
    IN  IF starts = {} THEN 0
        ELSE LET i == Min(starts)
             IN  ParseInt(SubSeq(text, i, DigitRunEnd(text, i) - 1))

\* ------------------------------------------------------ immovable assets
\* re.match(r"^(Sr|Description|self|spouse|huf|dependent|Total)", c, re.I)
IsHeaderLabel(c) ==
    \E lit \in {<<"s","r">>, <<"d","e","s","c","r","i","p","t","i","o","n">>, <<"s","e","l","f">>, <<"s","p","o","u","s","e">>,
                <<"h","u","f">>, <<"d","e","p","e","n","d","e","n","t">>, <<"t","o","t","a","l">>} : MatchAtI(c, 1, lit)

\* i == 0 or all(c == "" or re.match(...) for c in cells if c)
IsHeaderRow(i, cells) ==
    i = 0 \/ \A j \in 1..Len(cells) : cells[j] = <<>> \/ IsHeaderLabel(cells[j])

\* row_dict after the first n cells: key = headers[j] if j < len(headers)
\* else f"col_{j}"
RECURSIVE RowDict(_, _, _)
RowDict(headers, cells, n) ==
    IF n = 0 THEN <<>>
    ELSE DictSet(RowDict(headers, cells, n - 1),
                 IF n <= Len(headers) THEN headers[n]
                 ELSE <<"c","o","l","_">> \o IntToText(n - 1),
                 cells[n])

\* re.match(r"^(Sr\s*No|Total|Grand)", desc, re.I)
IsTotalLabel(desc) ==
    \/ MatchAtI(desc, 1, <<"s","r">>) /\ MatchAtI(desc, WsRunEnd(desc, 3), <<"n","o">>)
    \/ MatchAtI(desc, 1, <<"t","o","t","a","l">>)
    \/ MatchAtI(desc, 1, <<"g","r","a","n","d">>)

\* re.search(r"Grand\s*Total", v, re.I)
HasGrandTotal(v) ==
    \E i \in 1..Len(v) :
        MatchAtI(v, i, <<"g","r","a","n","d">>) /\ MatchAtI(v, WsRunEnd(v, i + 5), <<"t","o","t","a","l">>)

\* lit in k.lower()
ContainsLower(k, lit) == \E i \in 1..Len(k) : MatchAtI(k, i, lit)

\* the value the loop over row_dict.items() leaves in a total: the last
\* non-empty value under a key that contains lit, else the value before
RECURSIVE LastUnderKey(_, _, _, _)
LastUnderKey(d, lit, n, before) ==
    IF n = 0 THEN before
    ELSE IF ContainsLower(d[n][1], lit) /\ d[n][2] # <<>> THEN d[n][2]
         ELSE LastUnderKey(d, lit, n - 1, before)

\* [c for c in cells if c]
NonEmptyCells(cells) == SelectSeq(cells, LAMBDA c : c # <<>>)

\* ImmovableRow without the test that skips total rows
ImmovableRowKeepsTotals(st, i, row) ==
    LET cells == RowCells(row)
        row_dict == RowDict(st.headers, cells, Len(cells))
        grand == \E j \in 1..Len(cells) : HasGrandTotal(cells[j])
        ne == NonEmptyCells(cells)
    IN  IF ~AnyCell(cells) THEN st
        ELSE IF IsHeaderRow(i, cells) THEN [st EXCEPT !.headers = cells]
        ELSE [st EXCEPT
                !.immovable_rows = Append(@, row_dict),
                !.total_self =
                    IF grand
                    THEN LastUnderKey(row_dict, <<"s","e","l","f">>, Len(row_dict), @)
                    ELSE @,
                !.total_spouse =
                    IF grand
                    THEN LastUnderKey(row_dict, <<"s","p","o","u","s","e">>, Len(row_dict), @)
                    ELSE @,
                !.grand_total = IF grand THEN ne[Len(ne)] ELSE @]

\* one pass of "for i, row in enumerate(all_rows)", i counted from 0
ImmovableRow(st, i, row) ==
    LET cells == RowCells(row)
        row_dict == RowDict(st.headers, cells, Len(cells))
        d == DictGet(row_dict, <<"D","e","s","c","r","i","p","t","i","o","n">>, <<>>)
        desc == IF d # <<>> THEN d
                ELSE IF Len(cells) > 1 THEN cells[2] ELSE <<>>
        grand == \E j \in 1..Len(cells) : HasGrandTotal(cells[j])
        ne == NonEmptyCells(cells)
    IN  IF ~AnyCell(cells) THEN st
        ELSE IF IsHeaderRow(i, cells) THEN [st EXCEPT !.headers = cells]
        ELSE [st EXCEPT
                !.immovable_rows =
                    IF desc # <<>> /\ ~IsTotalLabel(desc)
                    THEN Append(@, row_dict) ELSE @,
                !.total_self =
                    IF grand
                    THEN LastUnderKey(row_dict, <<"s","e","l","f">>, Len(row_dict), @)
                    ELSE @,
                !.total_spouse =
                    IF grand
                    THEN LastUnderKey(row_dict, <<"s","p","o","u","s","e">>, Len(row_dict), @)
                    ELSE @,
                !.grand_total = IF grand THEN ne[Len(ne)] ELSE @]

\* the loop over imm_table.find_all("tr"): the state after the first n rows
RECURSIVE ImmovableLoop(_, _)
ImmovableLoop(rows, n) ==
    IF n = 0
    THEN [headers |-> <<>>, immovable_rows |-> <<>>, total_self |-> <<>>,
          total_spouse |-> <<>>, grand_total |-> <<>>]
    ELSE ImmovableRow(ImmovableLoop(rows, n - 1), n - 1, rows[n])

\* ----------------------------------------------------------- liabilities
\* re.search(r"(Grand\s*Total|Total\s+Liabilit)", row_text, re.I)
IsLiabilitiesTotal(row_text) ==
    \E i \in 1..Len(row_text) :
        \/ /\ MatchAtI(row_text, i, <<"g","r","a","n","d">>)
           /\ MatchAtI(row_text, WsRunEnd(row_text, i + 5), <<"t","o","t","a","l">>)
        \/ /\ MatchAtI(row_text, i, <<"t","o","t","a","l">>)
           /\ WsRunEnd(row_text, i + 5) > i + 5
           /\ MatchAtI(row_text, WsRunEnd(row_text, i + 5), <<"l","i","a","b","i","l","i","t">>)

\* LiabilitiesRow with the total read from the first cell of the total row
LiabilitiesRowTotalFromLabel(st, row) ==
    LET cells == NonEmptyCells(RowCells(row))
        row_text == Join(<<" ">>, cells)
    IN  [liabilities_dict |->
            IF Len(cells) >= 2
            THEN DictSet(st.liabilities_dict, cells[1], cells[Len(cells)])
            ELSE st.liabilities_dict,
         liabilities_total |->
            IF IsLiabilitiesTotal(row_text) THEN cells[1]
            ELSE st.liabilities_total]

\* one pass of "for row in lib_table.find_all("tr")"
LiabilitiesRow(st, row) ==
    LET cells == NonEmptyCells(RowCells(row))
        row_text == Join(<<" ">>, cells)
    IN  [liabilities_dict |->
            IF Len(cells) >= 2
            THEN DictSet(st.liabilities_dict, cells[1], cells[Len(cells)])
            ELSE st.liabilities_dict,
         liabilities_total |->
            IF IsLiabilitiesTotal(row_text) THEN cells[Len(cells)]
            ELSE st.liabilities_total]

\* the loop over the rows: the state after the first n rows
RECURSIVE LiabilitiesLoop(_, _)
LiabilitiesLoop(rows, n) ==
    IF n = 0 THEN [liabilities_dict |-> <<>>, liabilities_total |-> <<>>]
    ELSE LiabilitiesRow(LiabilitiesLoop(rows, n - 1), rows[n])

\* -------------------------------------------------------- basic fields
\* s.rstrip(chars) and s.strip(chars)
RECURSIVE RStripChars(_, _)
RStripChars(s, chars) ==
    IF s # <<>> /\ s[Len(s)] \in chars
    THEN RStripChars(SubSeq(s, 1, Len(s) - 1), chars)
    ELSE s

RECURSIVE LStripChars(_, _)
LStripChars(s, chars) ==
    IF s # <<>> /\ Head(s) \in chars THEN LStripChars(Tail(s), chars) ELSE s

\* s.split(c) for a one-character separator
RECURSIVE SplitOn(_, _)
SplitOn(s, c) ==
    LET at == {i \in 1..Len(s) : s[i] = c}
    IN  IF at = {} THEN <<s>>
        ELSE <<SubSeq(s, 1, Min(at) - 1)>> \o SplitOn(From(s, Min(at) + 1), c)

\* s.replace(old, "", 1)
RemoveFirst(s, old) ==
    LET at == {i \in 1..Len(s) : MatchAt(s, i, old)}
    IN  IF old = <<>> \/ at = {} THEN s
        ELSE SubSeq(s, 1, Min(at) - 1) \o From(s, Min(at) + Len(old))

\* the record key a bold label fills ("" for a label the chain ignores)
LabelField(label) ==
    CASE label = <<"P","a","r","t","y">> -> "party"
      [] label \in {<<"S","/","o">>, <<"D","/","o">>, <<"W","/","o">>} -> "parentage"
      [] label = <<"A","g","e">> -> "age"
      [] label = <<"N","a","m","e"," ","E","n","r","o","l","l","e","d"," ","a","s"," ","V","o","t","e","r"," ","i","n">> -> "voter_enrolled_in"
      [] label = <<"S","e","l","f"," ","P","r","o","f","e","s","s","i","o","n">> -> "self_profession"
      [] label = <<"S","p","o","u","s","e"," ","P","r","o","f","e","s","s","i","o","n">> -> "spouse_profession"
      [] label = <<"S","t","a","t","u","s">> -> "status"
      [] OTHER -> ""

\* "for b_tag in soup.find_all("b")" over the first n bold elements
RECURSIVE BoldLabels(_, _, _)
BoldLabels(rec, bolds, n) ==
    IF n = 0 THEN rec
    ELSE LET r == BoldLabels(rec, bolds, n - 1)
             b == bolds[n]
             label == RStripChars(clean(b.text), {":"})
             value == clean(RemoveFirst(clean(b.parent_text), b.text))
         IN  IF LabelField(label) = "" THEN r
             ELSE [r EXCEPT ![LabelField(label)] = value]

\* the parts the education loop keeps, up to the next h3/h4
RECURSIVE EducationParts(_)
EducationParts(sibs) ==
    IF sibs = <<>> \/ Head(sibs).name \in {"h3", "h4"} THEN <<>>
    ELSE (IF clean(Head(sibs).text) # <<>> THEN <<clean(Head(sibs).text)>>
          ELSE <<>>)
         \o EducationParts(Tail(sibs))

\* ---------------------------------------------------------------- inputs
\* the calls the orchestrators make
StateIds == {2}

ConstituencyIds == {22}

CandidateIds == {6163}

Calls ==
    {[func |-> "get_all_constituencies", arg |-> 0]}
    \cup {[func |-> "get_constituencies", arg |-> s] : s \in StateIds}
    \cup {[func |-> "get_candidate_ids", arg |-> c] : c \in ConstituencyIds}
    \cup {[func |-> "parse_candidate", arg |-> c] : c \in CandidateIds}

\* sequences over S of length at most n
SeqsUpTo(S, n) == UNION {[1..k -> S] : k \in 0..n}

\* <a href=...> elements of a listing page
AnchorPool ==
    { [href |-> <<"c","a","n","d","i","d","a","t","e",".","p","h","p","?","c","a","n","d","i","d","a","t","e","_","i","d","=","7">>, text |-> <<"R","A","M">>],
      [href |-> <<"c","a","n","d","i","d","a","t","e",".","p","h","p","?","c","a","n","d","i","d","a","t","e","_","i","d","=","0","7">>, text |-> <<" ","R","A","M"," "," ","K","U","M","A","R"," ">>],
      [href |-> <<"c","a","n","d","i","d","a","t","e",".","p","h","p","?","c","a","n","d","i","d","a","t","e","_","i","d","=","1","2">>, text |-> <<"S","I","T","A">>],
      [href |-> <<"i","n","d","e","x",".","p","h","p","?","a","c","t","i","o","n","=","s","h","o","w","_","c","a","n","d","i","d","a","t","e","s","&","c","o","n","s","t","i","t","u","e","n","c","y","_","i","d","=","2","2">>,
       text |-> <<"K","A","D","A","P","A">>],
      [href |-> <<"i","n","d","e","x",".","p","h","p","?","a","c","t","i","o","n","=","s","h","o","w","_","c","a","n","d","i","d","a","t","e","s","&","c","o","n","s","t","i","t","u","e","n","c","y","_","i","d","=","2","2">>,
       text |-> <<"K","a","d","a","p","a","\n"," ","(","A","P",")">>],
      [href |-> <<"i","n","d","e","x",".","p","h","p","?","a","c","t","i","o","n","=","s","h","o","w","_","c","a","n","d","i","d","a","t","e","s","&","c","o","n","s","t","i","t","u","e","n","c","y","_","i","d","=","3">>,
       text |-> <<"A","R","A","K","U">>],
      [href |-> <<"i","n","d","e","x",".","p","h","p","?","a","c","t","i","o","n","=","s","u","m","m","a","r","y","&","c","o","n","s","t","i","t","u","e","n","c","y","_","i","d","=","2","2">>,
       text |-> <<"S","u","m","m","a","r","y">>] }

ListingPages == SeqsUpTo(AnchorPool, MaxAnchors)

\* an element the page may lack: None, or the element
None == <<>>

Some(x) == <<x>>

\* <tr> rows of a table after the "Criminal Cases" heading, each the texts
\* of its cells
CrimeRowPool ==
    { <<<<" ">>>>,
      <<<<"C","a","s","e"," ","N","o","."," ","1","2"," ","o","f"," ","2","0","2","0">>>>,
      <<<<"I","P","C"," ","S","e","c","t","i","o","n"," ","1","4","3",","," ","1","4","7">>>>,
      <<<<"C","a","s","e"," ","N","o","."," ","1","3"," ","o","f"," ","2","0","2","1">>>>,
      <<<<"u","/","s"," ","3","2","3">>>> }

ExampleCrimeTable ==
    << <<<<"C","a","s","e"," ","N","o","."," ","1","2"," ","o","f"," ","2","0","2","0">>>>, <<<<"I","P","C"," ","S","e","c","t","i","o","n"," ","1","4","3",","," ","1","4","7">>>>,
       <<<<"C","a","s","e"," ","N","o","."," ","1","3"," ","o","f"," ","2","0","2","1">>>>, <<<<"u","/","s"," ","3","2","3">>>> >>

CrimeTables == SeqsUpTo(CrimeRowPool, MaxCrimeRows) \cup {ExampleCrimeTable}

\* the siblings that follow the heading
PlainSiblings == <<[name |-> "div", text |-> <<"C","a","s","e","s"," ","d","e","c","l","a","r","e","d">>]>>

NoCrimeSiblings == <<[name |-> "div", text |-> <<"\n"," ","N","o"," ","c","r","i","m","i","n","a","l"," ","c","a","s","e","s"," ","\n">>]>>

\* "No criminal cases" only after the next heading
LaterNoCrimeSiblings ==
    <<[name |-> "table", text |-> <<"C","a","s","e"," ","N","o","."," ","1","2"," ","o","f"," ","2","0","2","0">>],
      [name |-> "h3", text |-> <<"O","t","h","e","r">>],
      [name |-> "div", text |-> <<"N","o"," ","c","r","i","m","i","n","a","l"," ","c","a","s","e","s">>]>>

CriminalSections ==
    {None}
    \cup {Some([siblings |-> PlainSiblings, table |-> t]) :
            t \in {None} \cup {Some(x) : x \in CrimeTables}}
    \cup {Some([siblings |-> sb, table |-> t]) :
            sb \in {NoCrimeSiblings, LaterNoCrimeSiblings},
            t \in {None, Some(ExampleCrimeTable)}}

\* soup.get_text(" ", strip=True)
PageTexts ==
    { <<"C","r","i","m","i","n","a","l"," ","C","a","s","e","s">>,
      <<"C","a","s","e","s"," ","2"," ","c","o","n","v","i","c","t","i","o","n","s">>,
      <<"0"," ","c","a","s","e","s"," ","1","2"," ","C","o","n","v","i","c","t","i","o","n"," ","3"," ","c","o","n","v","i","c","t","i","o","n">> }

ImmovableRowPool ==
    { <<<<"D","e","s","c","r","i","p","t","i","o","n">>, <<"S","e","l","f">>, <<"S","p","o","u","s","e">>, <<"T","o","t","a","l">>>>,
      <<<<"A","g","r","i","c","u","l","t","u","r","a","l"," ","L","a","n","d">>, <<"R","s"," ","5",",","0","0",",","0","0","0">>, <<"N","i","l">>, <<"R","s"," ","5",",","0","0",",","0","0","0">>>>,
      <<<<>>, <<"R","s"," ","5",",","0","0",",","0","0","0">>, <<"N","i","l">>, <<"R","s"," ","5",",","0","0",",","0","0","0">>>>,
      <<<<"G","r","a","n","d"," ","T","o","t","a","l">>, <<"R","s"," ","5",",","0","0",",","0","0","0">>, <<"N","i","l">>, <<"R","s"," ","5",",","0","0",",","0","0","0">>>>,
      <<<<" ">>, <<>>>> }

ExampleImmovableTable ==
    << <<<<"D","e","s","c","r","i","p","t","i","o","n">>, <<"S","e","l","f">>, <<"S","p","o","u","s","e">>, <<"T","o","t","a","l">>>>,
       <<<<"A","g","r","i","c","u","l","t","u","r","a","l"," ","L","a","n","d">>, <<"R","s"," ","5",",","0","0",",","0","0","0">>, <<"N","i","l">>, <<"R","s"," ","5",",","0","0",",","0","0","0">>>>,
       <<<<>>, <<"R","s"," ","5",",","0","0",",","0","0","0">>, <<"N","i","l">>, <<"R","s"," ","5",",","0","0",",","0","0","0">>>> >>

LabelledImmovableTable ==
    << <<<<"D","e","s","c","r","i","p","t","i","o","n">>, <<"S","e","l","f">>, <<"S","p","o","u","s","e">>, <<"T","o","t","a","l">>>>,
       <<<<"A","g","r","i","c","u","l","t","u","r","a","l"," ","L","a","n","d">>, <<"R","s"," ","5",",","0","0",",","0","0","0">>, <<"N","i","l">>, <<"R","s"," ","5",",","0","0",",","0","0","0">>>>,
       <<<<"G","r","a","n","d"," ","T","o","t","a","l">>, <<"R","s"," ","5",",","0","0",",","0","0","0">>, <<"N","i","l">>, <<"R","s"," ","5",",","0","0",",","0","0","0">>>> >>

ImmovableTables ==
    SeqsUpTo(ImmovableRowPool, MaxImmovableRows)
    \cup {ExampleImmovableTable, LabelledImmovableTable}

ImmovableSections ==
    {None, Some([table |-> None])}
    \cup {Some([table |-> Some(t)]) : t \in ImmovableTables}

LiabilityRowPool ==
    { <<<<"B","a","n","k"," ","L","o","a","n">>, <<"R","s"," ","1",",","0","0",",","0","0","0">>>>,
      <<<<"G","r","a","n","d"," ","T","o","t","a","l">>, <<"R","s"," ","1",",","0","0",",","0","0","0">>>>,
      <<<<"B","a","n","k"," ","L","o","a","n">>, <<>>, <<"R","s"," ","7">>>>,
      <<<<"T","o","t","a","l"," ","L","i","a","b","i","l","i","t","i","e","s">>>> }

ExampleLiabilityTable ==
    << <<<<"B","a","n","k"," ","L","o","a","n">>, <<"R","s"," ","1",",","0","0",",","0","0","0">>>>,
       <<<<"G","r","a","n","d"," ","T","o","t","a","l">>, <<"R","s"," ","1",",","0","0",",","0","0","0">>>> >>

LiabilityTables ==
    SeqsUpTo(LiabilityRowPool, MaxLiabilityRows) \cup {ExampleLiabilityTable}

LiabilitySections ==
    {None, Some([table |-> None])}
    \cup {Some([table |-> Some(t)]) : t \in LiabilityTables}

\* <b> elements: the text, the text of the parent, and the string node
\* before the element (find_previous(string=True))
LiabilitiesBold ==
    [text |-> <<"R","s"," ","5",",","0","0","0">>, parent_text |-> <<"L","i","a","b","i","l","i","t","i","e","s",":"," ","R","s"," ","5",",","0","0","0">>,
     prev |-> Some(<<"L","i","a","b","i","l","i","t","i","e","s",":"," ">>)]

BoldPool ==
    { LiabilitiesBold,
      [text |-> <<"N","i","l">>, parent_text |-> <<"T","o","t","a","l"," ","L","i","a","b","i","l","i","t","i","e","s"," ","N","i","l">>,
       prev |-> Some(<<"T","o","t","a","l"," ","L","i","a","b","i","l","i","t","i","e","s">>)],
      [text |-> <<"R","s"," ","9"," ","L","a","c","s">>, parent_text |-> <<"A","s","s","e","t","s",":"," ","R","s"," ","9"," ","L","a","c","s">>,
       prev |-> Some(<<"A","s","s","e","t","s",":">>)],
      [text |-> <<"P","a","r","t","y",":">>, parent_text |-> <<"P","a","r","t","y",":"," ","I","N","D">>,
       prev |-> None] }

BoldLists == SeqsUpTo(BoldPool, MaxBolds)

BlankPage ==
    [h2 |-> None, h5 |-> None, bolds |-> <<>>, education |-> None,
     criminal |-> None, page_text |-> <<>>, immovable |-> None,
     liabilities |-> None]

ExamplePage ==
    [h2 |-> Some(<<" ","A","."," ","K","u","m","a","r","\n">>),
     h5 |-> Some(<<"K","A","D","A","P","A","|","(","A","N","D","H","R","A"," ","P","R","A","D","E","S","H",")">>),
     bolds |-> <<[text |-> <<"A","g","e",":">>, parent_text |-> <<"A","g","e",":"," ","4","5">>,
                  prev |-> None],
                 LiabilitiesBold>>,
     education |-> Some(<<[name |-> "div", text |-> <<"G","r","a","d","u","a","t","e">>],
                         [name |-> "p", text |-> <<" ">>],
                         [name |-> "div", text |-> <<"B",".","A","."," ","1","9","9","9">>],
                         [name |-> "h3", text |-> <<"C","r","i","m","i","n","a","l"," ","C","a","s","e","s">>]>>),
     criminal |-> Some([siblings |-> PlainSiblings,
                        table |-> Some(ExampleCrimeTable)]),
     page_text |-> <<"C","a","s","e","s"," ","2"," ","c","o","n","v","i","c","t","i","o","n","s">>,
     immovable |-> Some([table |-> Some(LabelledImmovableTable)]),
     liabilities |-> Some([table |-> Some(ExampleLiabilityTable)])]

\* pages that vary one section against an otherwise blank page
CandidatePages ==
    {ExamplePage}
    \cup {[BlankPage EXCEPT !.h2 = h, !.h5 = f] :
            h \in {None, Some(<<"A","."," ","K","u","m","a","r">>)},
            f \in {None, Some(<<"K","A","D","A","P","A">>), Some(<<>>)}}
    \cup {[BlankPage EXCEPT !.criminal = c, !.page_text = t] :
            c \in CriminalSections, t \in PageTexts}
    \cup {[BlankPage EXCEPT !.immovable = m] : m \in ImmovableSections}
    \cup {[BlankPage EXCEPT !.liabilities = l, !.bolds = b] :
            l \in LiabilitySections, b \in {<<>>, <<LiabilitiesBold>>}}
    \cup {[BlankPage EXCEPT !.bolds = b, !.liabilities = l] :
            b \in BoldLists,
            l \in {None, Some([table |-> Some(ExampleLiabilityTable)])}}

\* the pages a successful request for func may return
Documents(f) ==
    IF f = "parse_candidate" THEN CandidatePages ELSE ListingPages

\* ----------------------------------------------------------------- state
VARIABLES
    func,            \* the function called
    arg,             \* its argument (0 for get_all_constituencies)
    pc,              \* where the call stands
    attempt,         \* safe_get: the loop variable of range(retries)
    resp,            \* safe_get's return value: "None" or "Response"
    requests_made,   \* the outcome of each requests.get of the call, in order
    soup,            \* the parsed page of a successful response
    found,           \* link discovery: the list before de-duplication
    record,          \* parse_candidate: the record being filled
    cases,           \* parse_candidate: the cases closed so far
    current_case,    \* parse_candidate: the open case, or {}
    row_i,           \* the next row of the criminal-cases table (from 1)
    immovable_rows,  \* parse_candidate: the asset rows kept
    liabilities_dict,\* parse_candidate: the liabilities mapping
    bold_i,          \* the next <b> of the summary pass (from 1)
    result           \* the value returned (pc = "done")

vars == <<func, arg, pc, attempt, resp, requests_made, soup, found, record, cases,
          current_case, row_i, immovable_rows, liabilities_dict, bold_i,
          result>>

callVars == <<func, arg>>

fetchVars == <<attempt, resp, requests_made, soup>>

parseVars == <<record, cases, current_case, row_i, immovable_rows,
               liabilities_dict, bold_i>>

Init ==
    /\ \E c \in Calls : func = c.func /\ arg = c.arg
    /\ pc = "safe_get"
    /\ attempt = 0
    /\ resp = "None"
    /\ requests_made = <<>>
    /\ soup = <<>>
    /\ found = <<>>
    /\ record = <<>>
    /\ cases = <<>>
    /\ current_case = NoCase
    /\ row_i = 1
    /\ immovable_rows = <<>>
    /\ liabilities_dict = <<>>
    /\ bold_i = 1
    /\ result = <<>>

\* ------------------------------------------------------------- safe_get
\* what requests.get and raise_for_status raise when a request fails: a
\* connection error, a timeout (timeout=20), an HTTP error status
RequestFailures == {"ConnectionError", "Timeout", "HTTPError"}

\* except requests.RequestException: the classes the clause catches
IsRequestException(e) ==
    e \in {"RequestException", "ConnectionError", "Timeout", "HTTPError"}

\* SafeGetAttemptFails without the retry: the first failure returns None
SafeGetAttemptFailsNoRetry ==
    /\ pc = "safe_get"
    /\ attempt < DefaultRetries
    /\ requests_made' = Append(requests_made, "failed")
    /\ resp' = "None"
    /\ attempt' = 0
    /\ pc' = "body"
    /\ UNCHANGED <<callVars, soup, found, parseVars, result>>

\* requests.get or raise_for_status raises: the except clause warns,
\* sleeps 2 * (attempt + 1) seconds and the loop goes on; an exception the
\* clause does not catch leaves safe_get
SafeGetAttemptFails ==
    /\ pc = "safe_get"
    /\ attempt < DefaultRetries
    /\ requests_made' = Append(requests_made, "failed")
    /\ \E e \in RequestFailures :
          IF IsRequestException(e)
          THEN attempt' = attempt + 1 /\ pc' = pc
          ELSE attempt' = 0 /\ pc' = "raised"
    /\ UNCHANGED <<callVars, resp, soup, found, parseVars, result>>

\* the request succeeds: return resp
SafeGetAttemptSucceeds ==
    /\ pc = "safe_get"
    /\ attempt < DefaultRetries
    /\ requests_made' = Append(requests_made, "ok")
    /\ \E d \in Documents(func) : soup' = d
    /\ resp' = "Response"
    /\ attempt' = 0
    /\ pc' = "body"
    /\ UNCHANGED <<callVars, found, parseVars, result>>

\* the loop is exhausted: return None
SafeGetGivesUp ==
    /\ pc = "safe_get"
    /\ attempt >= DefaultRetries
    /\ resp' = "None"
    /\ attempt' = 0
    /\ pc' = "body"
    /\ UNCHANGED <<callVars, requests_made, soup, found, parseVars, result>>

\* ------------------------------------------------- the listing functions
GetAllConstituencies ==
    /\ pc = "body"
    /\ func = "get_all_constituencies"
    /\ IF resp = "None"
       THEN found' = <<>> /\ result' = <<>>
       ELSE /\ found' = CollectAllConstituencies(soup)
            /\ result' = UniqueConstituencies(found')
    /\ pc' = "done"
    /\ UNCHANGED <<callVars, fetchVars, parseVars>>

GetConstituencies ==
    /\ pc = "body"
    /\ func = "get_constituencies"
    /\ IF resp = "None"
       THEN found' = <<>> /\ result' = <<>>
       ELSE /\ found' = CollectConstituencies(soup, arg)
            /\ result' = UniqueConstituencies(found')
    /\ pc' = "done"
    /\ UNCHANGED <<callVars, fetchVars, parseVars>>

GetCandidateIds ==
    /\ pc = "body"
    /\ func = "get_candidate_ids"
    /\ IF resp = "None"
       THEN found' = <<>> /\ result' = <<>>
       ELSE /\ found' = CollectCandidates(soup, arg)
            /\ result' = UniqueCandidates(found')
    /\ pc' = "done"
    /\ UNCHANGED <<callVars, fetchVars, parseVars>>

\* ------------------------------------------------------- parse_candidate
\* f"{BASE_URL}/candidate.php?candidate_id={candidate_id}"
CandidateUrl(candidate_id) ==
    BASE_URL \o <<"/","c","a","n","d","i","d","a","t","e",".","p","h","p","?","c","a","n","d","i","d","a","t","e","_","i","d","=">> \o IntToText(candidate_id)

\* ErrorRecord with the criminal fields defaulted instead of omitted
ErrorRecordWithDefaults(candidate_id) ==
    [candidate_id |-> candidate_id, error |-> <<"f","e","t","c","h","_","f","a","i","l","e","d">>,
     criminal_cases_count |-> 0, criminal_cases_detail |-> <<"[","]">>]

\* {"candidate_id": candidate_id, "error": "fetch_failed"}
ErrorRecord(candidate_id) ==
    [candidate_id |-> candidate_id, error |-> <<"f","e","t","c","h","_","f","a","i","l","e","d">>]

\* record = {...}: the defaults
NewRecord(candidate_id) ==
    [candidate_id |-> candidate_id,
     source_url |-> CandidateUrl(candidate_id),
     name |-> <<>>, constituency |-> <<>>, state |-> <<>>, party |-> <<>>,
     parentage |-> <<>>, age |-> <<>>, voter_enrolled_in |-> <<>>,
     self_profession |-> <<>>, spouse_profession |-> <<>>,
     education |-> <<>>, status |-> <<>>,
     criminal_cases_count |-> 0,
     convictions_count |-> 0,
     criminal_cases_detail |-> <<>>,
     immovable_assets_total_self |-> <<>>,
     immovable_assets_total_spouse |-> <<>>,
     immovable_assets_grand_total |-> <<>>,
     immovable_assets_detail |-> <<>>,
     liabilities_total |-> <<>>,
     liabilities_detail |-> <<>>]

\* name, constituency and state from the first h2 and h5
WithHeadings(rec, page) ==
    LET parts == SplitOn(page.h5[1], "|")
        r1 == IF page.h2 # None
              THEN [rec EXCEPT !.name = clean(page.h2[1])] ELSE rec
    IN  IF page.h5 = None THEN r1
        ELSE IF Len(parts) >= 2
             THEN [r1 EXCEPT
                     !.constituency = clean(parts[1]),
                     !.state = clean(RStripChars(
                                   LStripChars(parts[2], {"(", ")"}),
                                   {"(", ")"}))]
             ELSE [r1 EXCEPT !.constituency = clean(parts[1])]

\* the education text
WithEducation(rec, page) ==
    IF page.education = None THEN rec
    ELSE [rec EXCEPT
            !.education = Join(<<" ","|"," ">>, EducationParts(page.education[1]))]

\* if not resp: return {"candidate_id": ..., "error": "fetch_failed"}
ParseCandidateFetchFailed ==
    /\ pc = "body"
    /\ func = "parse_candidate"
    /\ resp = "None"
    /\ result' = ErrorRecord(arg)
    /\ pc' = "done"
    /\ UNCHANGED <<callVars, fetchVars, found, parseVars>>

\* the record's defaults and the basic fields
ParseBasicInfo ==
    /\ pc = "body"
    /\ func = "parse_candidate"
    /\ resp = "Response"
    /\ record' = WithEducation(
                    BoldLabels(WithHeadings(NewRecord(arg), soup),
                               soup.bolds, Len(soup.bolds)),
                    soup)
    /\ pc' = "criminal"
    /\ UNCHANGED <<callVars, fetchVars, found, cases, current_case, row_i,
                   immovable_rows, liabilities_dict, bold_i, result>>

\* CriminalSection without the else branch that serializes the empty list
\* when the page has no heading
CriminalSectionNoDefault ==
    /\ pc = "criminal"
    /\ cases' = <<>>
    /\ IF soup.criminal = None
       THEN /\ record' = record
            /\ pc' = "immovable"
       ELSE IF Contains(SiblingText(soup.criminal[1].siblings),
                        <<"N","o"," ","c","r","i","m","i","n","a","l"," ","c","a","s","e","s">>)
       THEN /\ record' = [record EXCEPT
                            !.criminal_cases_count = 0,
                            !.criminal_cases_detail = <<"[","]">>]
            /\ pc' = "immovable"
       ELSE /\ record' = record
            /\ pc' = IF soup.criminal[1].table = None
                     THEN "crime_finish" ELSE "crime_rows"
    /\ current_case' = NoCase
    /\ row_i' = 1
    /\ UNCHANGED <<callVars, fetchVars, found, immovable_rows,
                   liabilities_dict, bold_i, result>>

\* the "Criminal Cases" heading, the "No criminal cases" check and the table
CriminalSection ==
    /\ pc = "criminal"
    /\ cases' = <<>>
    /\ IF soup.criminal = None
       THEN /\ record' = [record EXCEPT !.criminal_cases_detail = <<"[","]">>]
            /\ pc' = "immovable"
       ELSE IF Contains(SiblingText(soup.criminal[1].siblings),
                        <<"N","o"," ","c","r","i","m","i","n","a","l"," ","c","a","s","e","s">>)
       THEN /\ record' = [record EXCEPT
                            !.criminal_cases_count = 0,
                            !.criminal_cases_detail = <<"[","]">>]
            /\ pc' = "immovable"
       ELSE /\ record' = record
            /\ pc' = IF soup.criminal[1].table = None
                     THEN "crime_finish" ELSE "crime_rows"
    /\ current_case' = NoCase
    /\ row_i' = 1
    /\ UNCHANGED <<callVars, fetchVars, found, immovable_rows,
                   liabilities_dict, bold_i, result>>

\* one pass of "for row in rows"
CrimeRow ==
    /\ pc = "crime_rows"
    /\ row_i <= Len(soup.criminal[1].table[1])
    /\ LET cells == RowCells(soup.criminal[1].table[1][row_i])
           text == Join(<<" ","|"," ">>, cells)
       IN  IF ~AnyCell(cells)
           THEN UNCHANGED <<cases, current_case>>
           ELSE IF IsCaseHeader(text)
           THEN /\ cases' = IF IsOpen(current_case)
                            THEN Append(cases, current_case) ELSE cases
                /\ current_case' = [raw |-> text, ipc_sections |-> <<>>,
                                    charges |-> <<>>]
           ELSE IF IsOpen(current_case)
           THEN /\ current_case' =
                       [current_case EXCEPT
                          !.ipc_sections = @ \o RowSections(text),
                          !.charges = IF IsChargeLine(text)
                                      THEN Append(@, text) ELSE @]
                /\ cases' = cases
           ELSE UNCHANGED <<cases, current_case>>
    /\ row_i' = row_i + 1
    /\ UNCHANGED <<callVars, fetchVars, found, pc, record, immovable_rows,
                   liabilities_dict, bold_i, result>>

\* CrimeRowsEnd without the append of the case still open
CrimeRowsEndDropsOpenCase ==
    /\ pc = "crime_rows"
    /\ row_i > Len(soup.criminal[1].table[1])
    /\ cases' = cases
    /\ pc' = "crime_finish"
    /\ UNCHANGED <<callVars, fetchVars, found, record, current_case, row_i,
                   immovable_rows, liabilities_dict, bold_i, result>>

\* after the loop: if current_case: cases.append(current_case)
CrimeRowsEnd ==
    /\ pc = "crime_rows"
    /\ row_i > Len(soup.criminal[1].table[1])
    /\ cases' = IF IsOpen(current_case)
                THEN Append(cases, current_case) ELSE cases
    /\ pc' = "crime_finish"
    /\ UNCHANGED <<callVars, fetchVars, found, record, current_case, row_i,
                   immovable_rows, liabilities_dict, bold_i, result>>

\* CriminalFinish with the count taken before the open case was closed
CriminalFinishCountsClosedOnly ==
    /\ pc = "crime_finish"
    /\ record' = [record EXCEPT
                    !.convictions_count = ConvictionsCount(soup.page_text),
                    !.criminal_cases_count =
                        IF IsOpen(current_case) THEN Len(cases) - 1
                        ELSE Len(cases),
                    !.criminal_cases_detail = JsonCases(cases)]
    /\ pc' = "immovable"
    /\ UNCHANGED <<callVars, fetchVars, found, cases, current_case, row_i,
                   immovable_rows, liabilities_dict, bold_i, result>>

\* convictions, the count and the serialized cases
CriminalFinish ==
    /\ pc = "crime_finish"
    /\ record' = [record EXCEPT
                    !.convictions_count = ConvictionsCount(soup.page_text),
                    !.criminal_cases_count = Len(cases),
                    !.criminal_cases_detail = JsonCases(cases)]
    /\ pc' = "immovable"
    /\ UNCHANGED <<callVars, fetchVars, found, cases, current_case, row_i,
                   immovable_rows, liabilities_dict, bold_i, result>>

\* the "Immovable" heading and its table
ImmovableAssets ==
    /\ pc = "immovable"
    /\ LET rows == IF soup.immovable = None \/ soup.immovable[1].table = None
                   THEN <<>> ELSE soup.immovable[1].table[1]
           st == ImmovableLoop(rows, Len(rows))
       IN  /\ immovable_rows' = st.immovable_rows
           /\ record' = [record EXCEPT
                  !.immovable_assets_total_self = st.total_self,
                  !.immovable_assets_total_spouse = st.total_spouse,
                  !.immovable_assets_grand_total = st.grand_total,
                  !.immovable_assets_detail = JsonRows(st.immovable_rows)]
    /\ pc' = "liabilities"
    /\ UNCHANGED <<callVars, fetchVars, found, cases, current_case, row_i,
                   liabilities_dict, bold_i, result>>

\* the "Liabilit" heading and its table
Liabilities ==
    /\ pc = "liabilities"
    /\ LET rows == IF soup.liabilities = None
                      \/ soup.liabilities[1].table = None
                   THEN <<>> ELSE soup.liabilities[1].table[1]
           st == LiabilitiesLoop(rows, Len(rows))
       IN  /\ liabilities_dict' = st.liabilities_dict
           /\ record' = [record EXCEPT
                  !.liabilities_total = st.liabilities_total,
                  !.liabilities_detail = JsonDict(st.liabilities_dict)]
    /\ bold_i' = 1
    /\ pc' = "summary"
    /\ UNCHANGED <<callVars, fetchVars, found, cases, current_case, row_i,
                   immovable_rows, result>>

\* SetsLiabilitiesTotal without the test that no total is set yet
SetsLiabilitiesTotalAlways(rec, b) ==
    LET txt == clean(b.text)
    IN  /\ StartsWith(txt, <<"R","s"," ">>) \/ txt = <<"N","i","l">>
        /\ b.prev # None
        /\ b.prev[1] # <<>>
        /\ Contains(clean(b.prev[1]), <<"L","i","a","b","i","l","i","t","i","e","s">>)

\* the bold element sets the total: a currency figure after "Liabilities"
\* while no total is set
SetsLiabilitiesTotal(rec, b) ==
    LET txt == clean(b.text)
    IN  /\ StartsWith(txt, <<"R","s"," ">>) \/ txt = <<"N","i","l">>
        /\ b.prev # None
        /\ b.prev[1] # <<>>
        /\ Contains(clean(b.prev[1]), <<"L","i","a","b","i","l","i","t","i","e","s">>)
        /\ rec.liabilities_total = <<>>

\* one pass of the second "for b_tag in soup.find_all("b")"
SummaryBold ==
    /\ pc = "summary"
    /\ bold_i <= Len(soup.bolds)
    /\ record' = IF SetsLiabilitiesTotal(record, soup.bolds[bold_i])
                 THEN [record EXCEPT
                         !.liabilities_total = clean(soup.bolds[bold_i].text)]
                 ELSE record
    /\ bold_i' = bold_i + 1
    /\ UNCHANGED <<callVars, fetchVars, found, pc, cases, current_case,
                   row_i, immovable_rows, liabilities_dict, result>>

\* return record
ReturnRecord ==
    /\ pc = "summary"
    /\ bold_i > Len(soup.bolds)
    /\ result' = record
    /\ pc' = "done"
    /\ UNCHANGED <<callVars, fetchVars, found, parseVars>>

Next ==
    \/ SafeGetAttemptFails
    \/ SafeGetAttemptSucceeds
    \/ SafeGetGivesUp
    \/ GetAllConstituencies
    \/ GetConstituencies
    \/ GetCandidateIds
    \/ ParseCandidateFetchFailed
    \/ ParseBasicInfo
    \/ CriminalSection
    \/ CrimeRow
    \/ CrimeRowsEnd
    \/ CriminalFinish
    \/ ImmovableAssets
    \/ Liabilities
    \/ SummaryBold
    \/ ReturnRecord

Spec == Init /\ [][Next]_vars

\* safe_get runs on: requests.get gives up after its timeout and
\* time.sleep returns, so a pass of the loop that can be taken is taken
SafeGetStep ==
    SafeGetAttemptFails \/ SafeGetAttemptSucceeds \/ SafeGetGivesUp

FairSpec == Spec /\ WF_vars(SafeGetStep)

\* ------------------------------------------------------- reading JSON
\* What json.loads accepts of the texts above: strings, arrays, objects.
\* A position of 0 says the text is malformed.
CharAt(s, i) == IF i >= 1 /\ i <= Len(s) THEN s[i] ELSE ""

JsonWs(s, i) == WsRunEnd(s, i)

\* the position after the string whose opening quote is before j
RECURSIVE JsonStringScan(_, _)
JsonStringScan(s, j) ==
    IF j > Len(s) THEN 0
    ELSE IF s[j] = "\"" THEN j + 1
    ELSE IF s[j] = "\\"
         THEN IF CharAt(s, j + 1) \in {"\"", "\\", "/", "b", "f", "n", "r", "t"}
              THEN JsonStringScan(s, j + 2) ELSE 0
    ELSE IF s[j] \in {"\n", "\r", "\t", "\f"} THEN 0
    ELSE JsonStringScan(s, j + 1)

JsonStringEnd(s, i) == IF CharAt(s, i) = "\"" THEN JsonStringScan(s, i + 1) ELSE 0

RECURSIVE JsonValueEnd(_, _)
RECURSIVE JsonElements(_, _, _)
RECURSIVE JsonMembersEnd(_, _)

\* the array that starts at i: where it ends and how many elements it has
JsonArray(s, i) ==
    IF CharAt(s, i) # "[" THEN [end |-> 0, count |-> -1]
    ELSE IF CharAt(s, JsonWs(s, i + 1)) = "]"
         THEN [end |-> JsonWs(s, i + 1) + 1, count |-> 0]
         ELSE JsonElements(s, JsonWs(s, i + 1), 0)

JsonElements(s, j, n) ==
    LET e == JsonValueEnd(s, j)
        k == JsonWs(s, e)
    IN  IF e = 0 THEN [end |-> 0, count |-> -1]
        ELSE IF CharAt(s, k) = "," THEN JsonElements(s, JsonWs(s, k + 1), n + 1)
        ELSE IF CharAt(s, k) = "]" THEN [end |-> k + 1, count |-> n + 1]
        ELSE [end |-> 0, count |-> -1]

JsonObjectEnd(s, i) ==
    IF CharAt(s, i) # "{" THEN 0
    ELSE IF CharAt(s, JsonWs(s, i + 1)) = "}" THEN JsonWs(s, i + 1) + 1
         ELSE JsonMembersEnd(s, JsonWs(s, i + 1))

JsonMembersEnd(s, j) ==
    LET ke == JsonStringEnd(s, j)
        c == JsonWs(s, ke)
        ve == JsonValueEnd(s, JsonWs(s, c + 1))
        k == JsonWs(s, ve)
    IN  IF ke = 0 \/ CharAt(s, c) # ":" \/ ve = 0 THEN 0
        ELSE IF CharAt(s, k) = "," THEN JsonMembersEnd(s, JsonWs(s, k + 1))
        ELSE IF CharAt(s, k) = "}" THEN k + 1
        ELSE 0

JsonValueEnd(s, i) ==
    CASE CharAt(s, i) = "\"" -> JsonStringEnd(s, i)
      [] CharAt(s, i) = "[" -> JsonArray(s, i).end
      [] CharAt(s, i) = "{" -> JsonObjectEnd(s, i)
      [] OTHER -> 0

\* len(json.loads(s)) when s is an array, -1 when it is not one
JsonArrayLen(s) ==
    LET a == JsonArray(s, JsonWs(s, 1))
    IN  IF a.end # 0 /\ JsonWs(s, a.end) = Len(s) + 1 THEN a.count ELSE -1

\* json.loads(s) is a dict
JsonIsObject(s) ==
    LET e == JsonObjectEnd(s, JsonWs(s, 1))
    IN  e # 0 /\ JsonWs(s, e) = Len(s) + 1

\* ---------------------------------------------------------------- claims
\* parse_candidate has returned the record of a fetched page
ReturnedRecord ==
    pc = "done" /\ func = "parse_candidate" /\ resp = "Response"

\* C1: every record parse_candidate returns for a fetched page has a
\* criminal_cases_count that is not negative and equals the number of
\* elements of the list read back from criminal_cases_detail.
C1_CountIsDetailLength ==
    ReturnedRecord =>
        /\ result.criminal_cases_count >= 0
        /\ result.criminal_cases_count
              = JsonArrayLen(result.criminal_cases_detail)

\* a record with two cases from a table has been returned
C1_Witness ==
    /\ ReturnedRecord
    /\ soup.criminal # None
    /\ result.criminal_cases_count = 2
    /\ JsonArrayLen(result.criminal_cases_detail) = 2

\* C2: in every record returned for a fetched page criminal_cases_detail
\* and immovable_assets_detail read back as arrays and liabilities_detail
\* as an object, and a section with no heading yields exactly "[]", "[]"
\* and "{}".
C2_DetailsAreSerialized ==
    ReturnedRecord =>
        /\ JsonArrayLen(result.criminal_cases_detail) >= 0
        /\ JsonArrayLen(result.immovable_assets_detail) >= 0
        /\ JsonIsObject(result.liabilities_detail)
        /\ soup.criminal = None => result.criminal_cases_detail = <<"[","]">>
        /\ soup.immovable = None => result.immovable_assets_detail = <<"[","]">>
        /\ soup.liabilities = None => result.liabilities_detail = <<"{","}">>

\* a page with none of the three sections has been parsed
C2_Witness ==
    /\ ReturnedRecord
    /\ soup.criminal = None
    /\ soup.immovable = None
    /\ soup.liabilities = None
    /\ result.liabilities_detail = <<"{","}">>

\* the page's immovable-assets table is t
ParsedImmovableTable(t) ==
    ReturnedRecord /\ soup.immovable = Some([table |-> Some(t)])

\* {"Description": "Agricultural Land", "Self": "Rs 5,00,000",
\*  "Spouse": "Nil", "Total": "Rs 5,00,000"}
AgriculturalLandRow ==
    << <<<<"D","e","s","c","r","i","p","t","i","o","n">>, <<"A","g","r","i","c","u","l","t","u","r","a","l"," ","L","a","n","d">>>>,
       <<<<"S","e","l","f">>, <<"R","s"," ","5",",","0","0",",","0","0","0">>>>,
       <<<<"S","p","o","u","s","e">>, <<"N","i","l">>>>,
       <<<<"T","o","t","a","l">>, <<"R","s"," ","5",",","0","0",",","0","0","0">>>> >>

\* the total row of the example as a data row: its first cell is empty
UnlabelledTotalRow ==
    << <<<<"D","e","s","c","r","i","p","t","i","o","n">>, <<>>>>,
       <<<<"S","e","l","f">>, <<"R","s"," ","5",",","0","0",",","0","0","0">>>>,
       <<<<"S","p","o","u","s","e">>, <<"N","i","l">>>>,
       <<<<"T","o","t","a","l">>, <<"R","s"," ","5",",","0","0",",","0","0","0">>>> >>

\* C3 as stated: the header row, the Agricultural Land row and the total
\* row ["", "Rs 5,00,000", "Nil", "Rs 5,00,000"] give exactly one data
\* row, the total row is not emitted, and the grand total and the self
\* total are both "Rs 5,00,000".
C3_AsStated ==
    ParsedImmovableTable(ExampleImmovableTable) =>
        /\ immovable_rows = <<AgriculturalLandRow>>
        /\ result.immovable_assets_detail = <<"[","{","\"","D","e","s","c","r","i","p","t","i","o","n","\"",":"," ","\"","A","g","r","i","c","u","l","t","u","r","a","l"," ","L","a","n","d","\"",","," ","\"","S","e","l","f","\"",":"," ","\"","R","s"," ","5",",","0","0",",","0","0","0","\"",","," ","\"","S","p","o","u","s","e","\"",":"," ","\"","N","i","l","\"",","," ","\"","T","o","t","a","l","\"",":"," ","\"","R","s"," ","5",",","0","0",",","0","0","0","\"","}","]">>
        /\ result.immovable_assets_grand_total = <<"R","s"," ","5",",","0","0",",","0","0","0">>
        /\ result.immovable_assets_total_self = <<"R","s"," ","5",",","0","0",",","0","0","0">>

\* C3, amended: the total row of the example has no cell that reads
\* "Grand Total", so it is emitted as a second data row (Description "")
\* and the three totals stay empty; when its first cell reads
\* "Grand Total" the output is the one the claim describes: one data row,
\* the total row not emitted, grand total and self total "Rs 5,00,000".
C3_TotalRowNeedsLabel ==
    /\ ParsedImmovableTable(ExampleImmovableTable) =>
          /\ immovable_rows = <<AgriculturalLandRow, UnlabelledTotalRow>>
          /\ result.immovable_assets_detail = <<"[","{","\"","D","e","s","c","r","i","p","t","i","o","n","\"",":"," ","\"","A","g","r","i","c","u","l","t","u","r","a","l"," ","L","a","n","d","\"",","," ","\"","S","e","l","f","\"",":"," ","\"","R","s"," ","5",",","0","0",",","0","0","0","\"",","," ","\"","S","p","o","u","s","e","\"",":"," ","\"","N","i","l","\"",","," ","\"","T","o","t","a","l","\"",":"," ","\"","R","s"," ","5",",","0","0",",","0","0","0","\"","}",","," ","{","\"","D","e","s","c","r","i","p","t","i","o","n","\"",":"," ","\"","\"",","," ","\"","S","e","l","f","\"",":"," ","\"","R","s"," ","5",",","0","0",",","0","0","0","\"",","," ","\"","S","p","o","u","s","e","\"",":"," ","\"","N","i","l","\"",","," ","\"","T","o","t","a","l","\"",":"," ","\"","R","s"," ","5",",","0","0",",","0","0","0","\"","}","]">>
          /\ result.immovable_assets_grand_total = <<>>
          /\ result.immovable_assets_total_self = <<>>
          /\ result.immovable_assets_total_spouse = <<>>
    /\ ParsedImmovableTable(LabelledImmovableTable) =>
          /\ immovable_rows = <<AgriculturalLandRow>>
          /\ result.immovable_assets_detail = <<"[","{","\"","D","e","s","c","r","i","p","t","i","o","n","\"",":"," ","\"","A","g","r","i","c","u","l","t","u","r","a","l"," ","L","a","n","d","\"",","," ","\"","S","e","l","f","\"",":"," ","\"","R","s"," ","5",",","0","0",",","0","0","0","\"",","," ","\"","S","p","o","u","s","e","\"",":"," ","\"","N","i","l","\"",","," ","\"","T","o","t","a","l","\"",":"," ","\"","R","s"," ","5",",","0","0",",","0","0","0","\"","}","]">>
          /\ result.immovable_assets_grand_total = <<"R","s"," ","5",",","0","0",",","0","0","0">>
          /\ result.immovable_assets_total_self = <<"R","s"," ","5",",","0","0",",","0","0","0">>

\* the example table has been parsed and its total row kept as data
C3_Witness ==
    /\ ParsedImmovableTable(ExampleImmovableTable)
    /\ Len(immovable_rows) = 2
    /\ JsonArrayLen(result.immovable_assets_detail) = 2

\* the page's liabilities table is t
ParsedLiabilityTable(t) ==
    ReturnedRecord /\ soup.liabilities = Some([table |-> Some(t)])

\* C4 as stated: the rows ["Bank Loan", "Rs 1,00,000"] and
\* ["Grand Total", "Rs 1,00,000"] give the mapping
\* {"Bank Loan": "Rs 1,00,000"} and the total "Rs 1,00,000".
C4_AsStated ==
    ParsedLiabilityTable(ExampleLiabilityTable) =>
        /\ liabilities_dict = << <<<<"B","a","n","k"," ","L","o","a","n">>, <<"R","s"," ","1",",","0","0",",","0","0","0">>>> >>
        /\ result.liabilities_detail = <<"{","\"","B","a","n","k"," ","L","o","a","n","\"",":"," ","\"","R","s"," ","1",",","0","0",",","0","0","0","\"","}">>
        /\ result.liabilities_total = <<"R","s"," ","1",",","0","0",",","0","0","0">>

\* C4, amended: the total row has two non-empty cells, so it contributes
\* an entry as well: the mapping is {"Bank Loan": "Rs 1,00,000",
\* "Grand Total": "Rs 1,00,000"}, and the total is "Rs 1,00,000".
C4_TotalRowIsAnEntry ==
    ParsedLiabilityTable(ExampleLiabilityTable) =>
        /\ liabilities_dict = << <<<<"B","a","n","k"," ","L","o","a","n">>, <<"R","s"," ","1",",","0","0",",","0","0","0">>>>,
                                 <<<<"G","r","a","n","d"," ","T","o","t","a","l">>, <<"R","s"," ","1",",","0","0",",","0","0","0">>>> >>
        /\ result.liabilities_detail = <<"{","\"","B","a","n","k"," ","L","o","a","n","\"",":"," ","\"","R","s"," ","1",",","0","0",",","0","0","0","\"",","," ","\"","G","r","a","n","d"," ","T","o","t","a","l","\"",":"," ","\"","R","s"," ","1",",","0","0",",","0","0","0","\"","}">>
        /\ result.liabilities_total = <<"R","s"," ","1",",","0","0",",","0","0","0">>

\* the example liabilities table has been parsed
C4_Witness ==
    /\ ParsedLiabilityTable(ExampleLiabilityTable)
    /\ Len(liabilities_dict) = 2
    /\ result.liabilities_total = <<"R","s"," ","1",",","0","0",",","0","0","0">>

\* the page's criminal-cases table is t, with no "No criminal cases" text
ParsedCrimeTable(t) ==
    /\ ReturnedRecord
    /\ soup.criminal = Some([siblings |-> PlainSiblings, table |-> Some(t)])

\* C5: the rows "Case No. 12 of 2020", "IPC Section 143, 147",
\* "Case No. 13 of 2021", "u/s 323" give exactly two cases in that order:
\* the first with the sections 143 and 147 and a charge line that contains
\* "IPC Section 143, 147", the second with the single section 323.
C5_TwoCases ==
    ParsedCrimeTable(ExampleCrimeTable) =>
        /\ Len(cases) = 2
        /\ result.criminal_cases_count = 2
        /\ JsonArrayLen(result.criminal_cases_detail) = 2
        /\ cases[1].raw = <<"C","a","s","e"," ","N","o","."," ","1","2"," ","o","f"," ","2","0","2","0">>
        /\ cases[1].ipc_sections = <<<<"1","4","3">>, <<"1","4","7">>>>
        /\ \E k \in 1..Len(cases[1].charges) :
              Contains(cases[1].charges[k], <<"I","P","C"," ","S","e","c","t","i","o","n"," ","1","4","3",","," ","1","4","7">>)
        /\ cases[2].raw = <<"C","a","s","e"," ","N","o","."," ","1","3"," ","o","f"," ","2","0","2","1">>
        /\ cases[2].ipc_sections = <<<<"3","2","3">>>>

\* the example criminal-cases table has been parsed
C5_Witness ==
    /\ ParsedCrimeTable(ExampleCrimeTable)
    /\ Len(cases) = 2
    /\ cases[2].ipc_sections = <<<<"3","2","3">>>>

\* C6: when safe_get returns None, parse_candidate extracts nothing and
\* returns a record that holds the candidate identifier and the error tag
\* "fetch_failed" and no other field.
C6_FetchFailureRecord ==
    /\ (func = "parse_candidate" /\ pc \notin {"safe_get", "body", "done"})
          => resp = "Response"
    /\ (pc = "done" /\ func = "parse_candidate" /\ resp = "None") =>
          /\ DOMAIN result = {"candidate_id", "error"}
          /\ result.candidate_id = arg
          /\ result.error = <<"f","e","t","c","h","_","f","a","i","l","e","d">>
          /\ DOMAIN record = {}
          /\ cases = <<>>
          /\ immovable_rows = <<>>
          /\ liabilities_dict = <<>>

\* parse_candidate has returned after a failed fetch
C6_Witness ==
    /\ pc = "done"
    /\ func = "parse_candidate"
    /\ resp = "None"
    /\ result.error = <<"f","e","t","c","h","_","f","a","i","l","e","d">>

\* the identifier of an entry of the list the called function builds
LinkKey(e) ==
    IF func = "get_candidate_ids" THEN e.candidate_id ELSE e.constituency_id

\* where the identifier first occurs among the matching anchors
FirstIndex(id) == Min({k \in 1..Len(found) : LinkKey(found[k]) = id})

\* a listing function has returned
ReturnedList == pc = "done" /\ func # "parse_candidate"

\* C7: the list a listing function returns has no two entries with the
\* same identifier, has every identifier of the matching anchors, keeps
\* for each identifier the entry of its first occurrence, and is ordered
\* by first occurrence.
C7_FirstSeenDedup ==
    ReturnedList =>
        /\ \A i, j \in 1..Len(result) :
              i # j => LinkKey(result[i]) # LinkKey(result[j])
        /\ {LinkKey(result[i]) : i \in 1..Len(result)}
              = {LinkKey(found[k]) : k \in 1..Len(found)}
        /\ \A i \in 1..Len(result) :
              result[i] = found[FirstIndex(LinkKey(result[i]))]
        /\ \A i, j \in 1..Len(result) :
              i < j => FirstIndex(LinkKey(result[i]))
                          < FirstIndex(LinkKey(result[j]))

\* a list with a repeated identifier has been de-duplicated: the second
\* anchor of candidate 7 (written 07, with another name) was dropped
C7_Witness ==
    /\ ReturnedList
    /\ func = "get_candidate_ids"
    /\ Len(found) = 3
    /\ Len(result) = 2
    /\ found[1].candidate_id = found[3].candidate_id
    /\ found[1].name_from_list # found[3].name_from_list
    /\ result[2].candidate_id = 12

\* the rows of the criminal-cases table being scanned
CrimeRows == soup.criminal[1].table[1]

\* the joined text of a row: " | ".join(cells)
RowText(row) == Join(<<" ","|"," ">>, RowCells(row))

\* a row with a non-empty cell that matches the case/FIR/crime-number pattern
IsHeaderRowOfCase(row) == AnyCell(RowCells(row)) /\ IsCaseHeader(RowText(row))

\* the texts of the header rows among the first n rows, in row order
RECURSIVE HeaderTexts(_, _)
HeaderTexts(rows, n) ==
    IF n = 0 THEN <<>>
    ELSE HeaderTexts(rows, n - 1)
         \o (IF IsHeaderRowOfCase(rows[n]) THEN <<RowText(rows[n])>> ELSE <<>>)

\* the cases closed so far and the open one
OpenedCases ==
    cases \o (IF IsOpen(current_case) THEN <<current_case>> ELSE <<>>)

\* one row of the table is scanned
C8_RowStep ==
    (pc = "crime_rows" /\ row_i' = row_i + 1) =>
        LET row == CrimeRows[row_i]
        IN  /\ ~AnyCell(RowCells(row)) =>
                  cases' = cases /\ current_case' = current_case
            /\ (AnyCell(RowCells(row)) /\ ~IsHeaderRowOfCase(row)
                  /\ ~IsOpen(current_case)) =>
                  cases' = cases /\ current_case' = current_case
            /\ IsHeaderRowOfCase(row) =>
                  /\ cases' = IF IsOpen(current_case)
                              THEN Append(cases, current_case) ELSE cases
                  /\ current_case' = [raw |-> RowText(row),
                                      ipc_sections |-> <<>>, charges |-> <<>>]
            /\ (AnyCell(RowCells(row)) /\ ~IsHeaderRowOfCase(row)
                  /\ IsOpen(current_case)) =>
                  /\ cases' = cases
                  /\ IsOpen(current_case')
                  /\ current_case'.raw = current_case.raw

\* the end of the table is reached
C8_EndStep ==
    (pc = "crime_rows" /\ pc' = "crime_finish") =>
        cases' = IF IsOpen(current_case)
                 THEN Append(cases, current_case) ELSE cases

\* while the table is scanned the closed cases and the open one are the
\* header rows seen so far; after it the cases are the header rows
C8_CasesAreHeaderRows ==
    /\ pc = "crime_rows" =>
          /\ Len(OpenedCases) = Len(HeaderTexts(CrimeRows, row_i - 1))
          /\ \A k \in 1..Len(OpenedCases) :
                OpenedCases[k].raw = HeaderTexts(CrimeRows, row_i - 1)[k]
          /\ IsOpen(current_case) = (HeaderTexts(CrimeRows, row_i - 1) # <<>>)
    /\ (func = "parse_candidate"
          /\ pc \in {"crime_finish", "immovable", "liabilities", "summary", "done"}
          /\ resp = "Response"
          /\ soup.criminal # None
          /\ soup.criminal[1].siblings = PlainSiblings
          /\ soup.criminal[1].table # None) =>
          /\ Len(cases) = Len(HeaderTexts(CrimeRows, Len(CrimeRows)))
          /\ \A k \in 1..Len(cases) :
                cases[k].raw = HeaderTexts(CrimeRows, Len(CrimeRows))[k]

\* C8: the row loop is a two-state machine (no open case / open case,
\* starting with none): a row with no non-empty cell changes nothing, a
\* non-header row with no open case is ignored, a header row closes the
\* open case before it opens a new one, a non-header row with an open case
\* changes only that case, and the end of the table closes the open case;
\* so the cases are the header rows, one each, in row order, each with its
\* own row's text as raw header.
C8_CaseGrouping ==
    [] C8_CasesAreHeaderRows /\ [][C8_RowStep /\ C8_EndStep]_vars

\* a table whose first row, not a header, came before any case, and whose
\* two header rows gave two cases
C8_Witness ==
    /\ ReturnedRecord
    /\ soup.criminal # None
    /\ soup.criminal[1].table # None
    /\ Len(CrimeRows) = 3
    /\ AnyCell(RowCells(CrimeRows[1]))
    /\ ~IsHeaderRowOfCase(CrimeRows[1])
    /\ Len(cases) = 2
    /\ cases[1].raw # cases[2].raw

\* the matches of r"(\d+)\s+conviction" in text, each as <<start, end of
\* the digits>>: digits, then whitespace, then "conviction" in any case
ConvictionMatches(text) ==
    {m \in (1..Len(text)) \X (1..Len(text)) :
        /\ m[1] <= m[2]
        /\ \A k \in m[1]..m[2] : IsDigit(text[k])
        /\ \E w \in (m[2] + 2)..Len(text) :
              /\ \A k \in (m[2] + 1)..(w - 1) : IsSpace(text[k])
              /\ MatchAtI(text, w, <<"c","o","n","v","i","c","t","i","o","n">>)}

\* the first integer the pattern captures in text, 0 without a match
FirstConvictionNumber(text) ==
    IF ConvictionMatches(text) = {} THEN 0
    ELSE LET first == Min({m[1] : m \in ConvictionMatches(text)})
         IN  ParseInt(SubSeq(text, first,
                 CHOOSE e \in first..Len(text) :
                     <<first, e>> \in ConvictionMatches(text)))

\* the text under the heading states "No criminal cases"
StatesNoCriminalCases ==
    /\ soup.criminal # None
    /\ Contains(SiblingText(soup.criminal[1].siblings), <<"N","o"," ","c","r","i","m","i","n","a","l"," ","c","a","s","e","s">>)

\* C9 as stated: whenever a "Criminal Cases" heading is found the
\* conviction count is the first integer of the "<N> conviction" pattern
\* in the page text (0 without a match), also when the section states
\* "No criminal cases"; without the heading it is 0.
C9_AsStated ==
    ReturnedRecord =>
        result.convictions_count =
            IF soup.criminal # None
            THEN FirstConvictionNumber(soup.page_text) ELSE 0

\* C9, amended: the conviction count is the first integer of the
\* "<N> conviction" pattern in the page text (0 without a match) when a
\* "Criminal Cases" heading is found and the text under it does not state
\* "No criminal cases", with or without a table; it is 0 when the section
\* states "No criminal cases" and when there is no heading.
C9_ConvictionsUnlessNoCases ==
    ReturnedRecord =>
        result.convictions_count =
            IF soup.criminal # None /\ ~StatesNoCriminalCases
            THEN FirstConvictionNumber(soup.page_text) ELSE 0

\* a page with two matches of the pattern gave the first integer
C9_Witness ==
    /\ ReturnedRecord
    /\ soup.criminal # None
    /\ soup.page_text = <<"0"," ","c","a","s","e","s"," ","1","2"," ","C","o","n","v","i","c","t","i","o","n"," ","3"," ","c","o","n","v","i","c","t","i","o","n">>
    /\ result.convictions_count = 12

\* the bold element is a currency figure after text that contains
\* "Liabilities"
QualifiesAsTotal(b) ==
    /\ StartsWith(clean(b.text), <<"R","s"," ">>) \/ clean(b.text) = <<"N","i","l">>
    /\ b.prev # None
    /\ Contains(clean(b.prev[1]), <<"L","i","a","b","i","l","i","t","i","e","s">>)

\* one bold element of the secondary pass is visited
C10_BoldStep ==
    (pc = "summary" /\ bold_i' = bold_i + 1) =>
        /\ record.liabilities_total # <<>> =>
              record'.liabilities_total = record.liabilities_total
        /\ record'.liabilities_total # record.liabilities_total =>
              /\ QualifiesAsTotal(soup.bolds[bold_i])
              /\ record'.liabilities_total = clean(soup.bolds[bold_i].text)
        /\ (record.liabilities_total = <<>>
              /\ QualifiesAsTotal(soup.bolds[bold_i])) =>
              record'.liabilities_total = clean(soup.bolds[bold_i].text)
        /\ DOMAIN record' = DOMAIN record
        /\ \A f \in DOMAIN record \ {"liabilities_total"} :
              record'[f] = record[f]
        /\ liabilities_dict' = liabilities_dict
        /\ immovable_rows' = immovable_rows
        /\ cases' = cases

\* the total returned: the table's when it set one, else the first
\* qualifying bold element's
C10_FirstFigureWins ==
    /\ (ReturnedRecord /\ soup.liabilities = None) =>
          LET q == {i \in 1..Len(soup.bolds) : QualifiesAsTotal(soup.bolds[i])}
          IN  result.liabilities_total =
                 IF q = {} THEN <<>> ELSE clean(soup.bolds[Min(q)].text)
    /\ ParsedLiabilityTable(ExampleLiabilityTable) =>
          result.liabilities_total = <<"R","s"," ","1",",","0","0",",","0","0","0">>

\* C10: the secondary pass over the bold elements sets liabilities_total
\* only while it is empty: a total the table set stays, of several
\* qualifying elements the first in document order is the final value, and
\* the pass changes neither liabilities_detail nor any other field.
C10_TotalPrecedence ==
    [] C10_FirstFigureWins /\ [][C10_BoldStep]_vars

\* two qualifying bold elements with different figures, no table: the
\* first one's figure was returned
C10_Witness ==
    /\ ReturnedRecord
    /\ soup.liabilities = None
    /\ Len(soup.bolds) = 2
    /\ QualifiesAsTotal(soup.bolds[1])
    /\ QualifiesAsTotal(soup.bolds[2])
    /\ clean(soup.bolds[1].text) # clean(soup.bolds[2].text)
    /\ result.liabilities_total = clean(soup.bolds[1].text)

\* ------------------------------------------------------------ safe_get
\* safe_get has returned to its caller
SafeGetReturned == pc \notin {"safe_get", "raised"}

\* every request of the sequence failed
AllFailed(rs) == \A k \in 1..Len(rs) : rs[k] = "failed"

\* the requests so far: never more than retries, and a success only as
\* the last one
C11_AtMostRetries ==
    /\ Len(requests_made) <= DefaultRetries
    /\ \A k \in 1..Len(requests_made) :
          requests_made[k] = "ok" => k = Len(requests_made)

\* what safe_get returned: the response when the last request succeeded,
\* None exactly when retries requests were made and all of them failed
C11_ReturnValue ==
    SafeGetReturned =>
        /\ resp = "Response" <=>
              /\ requests_made # <<>>
              /\ requests_made[Len(requests_made)] = "ok"
        /\ resp = "None" <=>
              /\ Len(requests_made) = DefaultRetries
              /\ AllFailed(requests_made)

\* a step: a request is made only inside safe_get, one at a time, and
\* a successful request is the step that returns
C11_RequestStep ==
    /\ pc # "safe_get" => requests_made' = requests_made
    /\ requests_made' # requests_made =>
          /\ Len(requests_made') = Len(requests_made) + 1
          /\ SubSeq(requests_made', 1, Len(requests_made)) = requests_made
          /\ requests_made'[Len(requests_made')] = "ok" =>
                pc' = "body" /\ resp' = "Response"

\* C11: safe_get ends after at most retries (3) requests; it returns the
\* response of the first request that succeeds and makes no request after
\* it; it returns None exactly when all retries requests failed; and no
\* request failure leaves it as an exception.
C11_SafeGetTerminates ==
    /\ [](C11_AtMostRetries /\ C11_ReturnValue /\ pc # "raised")
    /\ [][C11_RequestStep]_vars
    /\ <>SafeGetReturned

\* safe_get returned the response of the third request after two failures
C11_Witness ==
    /\ SafeGetReturned
    /\ resp = "Response"
    /\ requests_made = <<"failed", "failed", "ok">>

====
